---- MODULE Spec2Model ----
(***************************************************************************)
(* Model of the arduino-uno-r4-wifi runtime: the boot sequence (lib.rs),   *)
(* the GPIO pin type-state machine and port registry (peripherals/pins.rs) *)
(* and the SysTick driver (peripherals/systick.rs).  The specifications:   *)
(* SpecBoot (reset to user entry), Spec (pin driver calls from the user    *)
(* entry function), SpecTick (the SysTick accessor and run bit), SpecTimer *)
(* (one SysTick value and the counting timer), SpecOut (output pins over   *)
(* any prior port content) and SpecRmw (a register primitive as its two    *)
(* bus accesses, with the hardware acting in between).  Execution is       *)
(* single threaded: outside SpecRmw a driver call is one step.             *)
(*                                                                         *)
(* A 32-bit register value is modelled as the set of its set bit           *)
(* positions (a subset of 0..31): 0 is {}, 1 << n is {n}, | is \cup,       *)
(* & is \cap, ^ is the symmetric difference and ! is the complement.       *)
(* Pin type states are the names of the PinMode marker types.  Since the  *)
(* pin types are zero sized, the model keeps, per physical pin and mode,  *)
(* the number of live values of type $pin_type<mode>.                      *)
(***************************************************************************)
EXTENDS Integers, Sequences, FiniteSets, TLC

VARIABLES
    pc,          \* where the CPU executes: a boot step, "main", or a halt loop
    excNo,       \* vector-table offset of the exception taken (0: none)
    mem,         \* RAM contents, address -> byte
    written,     \* RAM addresses written since reset
    bootLog,     \* boot steps completed since reset, in order
    layout,      \* linker symbols _sbss, _ebss, _sdata, _edata, _sidata
    PORTS,       \* static mut PORTS: "Some" or "None"
    live,        \* live[p][m]: number of live values of pin p in mode m
    hw,          \* [reg: register file, log: accesses of the last operation]
    lastOp,      \* the last pin or registry call: [op, pin, from, ret]
    pinsCalls,   \* results of the get_pins() calls so far, in order
    SYSTICK_CREATED, \* static mut SYSTICK_CREATED inside SysTick::instance
    systicks,    \* the SysTick values handed out, each [enabled |-> BOOLEAN]
    tickCalls,   \* results of the SysTick::instance() calls so far, in order
    tickOp,      \* the last SysTick method call: [op, self, ret]
    wraps,       \* times the timer reached 0 since CSR was last read (capped)
    edges,       \* timer clock edges since the last SysTick call (capped)
    rmw          \* the register primitive in progress, or Idle

vars == <<pc, excNo, mem, written, bootLog, layout, PORTS, live, hw, lastOp,
          pinsCalls, SYSTICK_CREATED, systicks, tickCalls, tickOp, wraps,
          edges, rmw>>

bootVars == <<mem, written, bootLog, layout>>
pinVars == <<PORTS, live, lastOp, pinsCalls>>
tickVars == <<SYSTICK_CREATED, systicks, tickCalls, tickOp, wraps, edges>>
userVars == <<pinVars, tickVars, hw, rmw>>

----------------------------------------------------------------------------
(* Bounds of the model.                                                    *)

\* number of board pins whose values and registers are tracked
NumPins == 2
\* get_pins() and SysTick::instance() are each called at most MaxCalls times
MaxCalls == 3
\* the sizes of the modelled RAM and of the modelled flash, in bytes
RamSize == 3
\* SpecTimer: reset values and counter values use the low TimerBits bits
TimerBits == 2
\* the counters wraps and edges stop counting at MaxCount
MaxCount == 2

----------------------------------------------------------------------------
(* Register values as bit sets.                                            *)

Word == 0..31
Bit(n) == {n}
BitOr(a, b) == a \cup b
BitAnd(a, b) == a \cap b
BitXor(a, b) == (a \ b) \cup (b \ a)
BitNot(a) == Word \ a

----------------------------------------------------------------------------
(* Pins, ports and register addresses (peripherals/pins.rs).               *)

PinModeUnknown == "PinModeUnknown"
PinModeOutput == "PinModeOutput"
PinModeInput == "PinModeInput"
PinModeInputPullup == "PinModeInputPullup"
PinMode == {PinModeUnknown, PinModeOutput, PinModeInput, PinModeInputPullup}

\* make_port_pins!: the pins of each port, as <<port, pin>>
Port0Pins == {<<0, 0>>, <<0, 1>>, <<0, 2>>, <<0, 14>>}
Port1Pins == {<<1, 0>>, <<1, 1>>, <<1, 2>>, <<1, 3>>, <<1, 4>>, <<1, 5>>,
              <<1, 6>>, <<1, 7>>, <<1, 11>>, <<1, 12>>}
Port3Pins == {<<3, 1>>, <<3, 2>>, <<3, 3>>, <<3, 4>>}
Port4Pins == {<<4, 10>>, <<4, 11>>}

\* $port_x::split: one PinModeUnknown value per pin of the port
split(port) ==
    CASE port = 0 -> Port0Pins
      [] port = 1 -> Port1Pins
      [] port = 3 -> Port3Pins
      [] port = 4 -> Port4Pins

\* struct ArduinoPins as assembled by get_pins: board name -> <<port, pin>>
ArduinoPins ==
    [d0 |-> <<3, 1>>, d1 |-> <<3, 2>>, d2 |-> <<1, 4>>, d3 |-> <<1, 5>>,
     d4 |-> <<1, 6>>, d5 |-> <<1, 7>>, d6 |-> <<1, 11>>, d7 |-> <<1, 12>>,
     d8 |-> <<3, 4>>, d9 |-> <<3, 3>>, d10 |-> <<1, 3>>, d11 |-> <<4, 11>>,
     d12 |-> <<4, 10>>, d13 |-> <<1, 2>>, a0 |-> <<0, 14>>, a1 |-> <<0, 0>>,
     a2 |-> <<0, 1>>, a3 |-> <<0, 2>>, a4 |-> <<1, 1>>, a5 |-> <<1, 0>>]

\* the board pins the model tracks: the first NumPins of this list
TrackedNames == <<"d13", "d10", "d12", "d11", "d0", "d1", "d2", "d3">>
Pins == {ArduinoPins[TrackedNames[i]] : i \in 1..NumPins}
PortOf(p) == p[1]
PinNo(p) == p[2]
\* struct Ports: port0, port1, port3, port4
Ports == {0, 1, 3, 4}
NoPin == <<0, 31>>

\* A 32-bit address is written as the pair <<upper halfword, lower
\* halfword>>, because 0xe000e010 exceeds the integers of the model checker.
Plus(a, n) == <<a[1] + ((a[2] + n) \div 65536), (a[2] + n) % 65536>>

\* PinWriteProtection::PWPR = 0x40040d03.  The driver accesses it as a u32
\* at this odd address; the model takes the access as aimed at the register.
PWPR == <<16388, 3331>>
\* PinFunctionSelect::BASE_ADDRESS = 0x40040800
PFS_BASE_ADDRESS == <<16388, 2048>>
\* PortControl::BASE_ADDRESS = 0x40040000, ADDRESS_GAP = 0x20
PORT_BASE_ADDRESS == <<16388, 0>>
ADDRESS_GAP == 32

PFSR(p) == Plus(PFS_BASE_ADDRESS, 4 * (16 * PortOf(p) + PinNo(p)))
PCNTR1(port) == Plus(PORT_BASE_ADDRESS, port * ADDRESS_GAP)
PCNTR2(port) == Plus(PORT_BASE_ADDRESS, 4 + port * ADDRESS_GAP)

\* SysTick::CSR = 0xe000e010, RVR = 0xe000e014, CVR = 0xe000e018
CSR == <<57344, 57360>>
RVR == <<57344, 57364>>
CVR == <<57344, 57368>>

Registers ==
    {PWPR, CSR, RVR, CVR} \cup {PFSR(p) : p \in Pins}
    \cup {PCNTR1(q) : q \in Ports}

----------------------------------------------------------------------------
(* Register accesses.  hw.reg is the register file, hw.log the sequence of *)
(* accesses the running operation has issued, in program order.            *)

Access(kind, addr, val, volatile) ==
    [kind |-> kind, addr |-> addr, val |-> val, volatile |-> volatile]

\* What a write does to the register file.  PWPR (comment at pins.rs:55-58):
\* bit 7 is always written, bit 6 is written only while bit 7 is 0; the
\* other bits are reserved.  PFSR (same comment): a write is effective only
\* while bit 6 of PWPR is 1.  CSR (comment at systick.rs:16-21): bit 16 is a
\* status bit that reads clear, a write leaves it as it is.  CVR (comment
\* at systick.rs:28-30): "Any write resets the register to 0".  Any other
\* register takes the value written.
Stored(reg, addr, val) ==
    IF addr = PWPR
    THEN BitOr(BitAnd(val, Bit(7)),
               IF 7 \in reg[PWPR] THEN BitAnd(reg[PWPR], Bit(6))
                                  ELSE BitAnd(val, Bit(6)))
    ELSE IF addr \in {PFSR(p) : p \in Pins} /\ 6 \notin reg[PWPR]
    THEN reg[addr]
    ELSE IF addr = CSR
    THEN BitOr(BitAnd(reg[CSR], Bit(16)), val \ Bit(16))
    ELSE IF addr = CVR
    THEN {}
    ELSE val

\* What a read leaves in the register: bit 16 of CSR "is set to 0 every
\* time we read this register"; any other register is unchanged.
Loaded(reg, addr) == IF addr = CSR THEN reg[CSR] \ Bit(16) ELSE reg[addr]

\* ptr.write_volatile(val) / ptr.write(val)
Write(h, addr, val, volatile) ==
    [reg |-> [h.reg EXCEPT ![addr] = Stored(h.reg, addr, val)],
     log |-> Append(h.log, Access("write", addr, val, volatile))]

\* ptr.read_volatile() / ptr.read(): the access is logged with the value
\* read, h.reg[addr]
Read(h, addr, volatile) ==
    [reg |-> [h.reg EXCEPT ![addr] = Loaded(h.reg, addr)],
     log |-> Append(h.log, Access("read", addr, h.reg[addr], volatile))]

\* a new operation starts with an empty access log
Begin(h) == [h EXCEPT !.log = <<>>]

(* registers.rs: impl VolatileBoolOps<T> for *mut T *)
volatile_or(h, addr, bitmask) ==
    Write(Read(h, addr, TRUE), addr, BitOr(h.reg[addr], bitmask), TRUE)

volatile_and(h, addr, bitmask) ==
    Write(Read(h, addr, TRUE), addr, BitAnd(h.reg[addr], bitmask), TRUE)

volatile_xor(h, addr, bitmask) ==
    Write(Read(h, addr, TRUE), addr, BitXor(h.reg[addr], bitmask), TRUE)

(* The same primitives as the two bus accesses they consist of:           *)
(* self.write_volatile(self.read_volatile() <op> bitmask).  rmw holds the  *)
(* primitive in progress: the value its read returned and, for the bits    *)
(* the hardware changed since that read, the level the hardware gave them. *)
Idle == [at |-> "idle"]

Combine(op, value, bitmask) ==
    CASE op = "volatile_or" -> BitOr(value, bitmask)
      [] op = "volatile_and" -> BitAnd(value, bitmask)
      [] op = "volatile_xor" -> BitXor(value, bitmask)

\* the bits of the register the primitive is meant to leave alone
Untouched(op, bitmask) ==
    IF op = "volatile_and" THEN bitmask ELSE BitNot(bitmask)

\* self.read_volatile(), the first access of the primitive op
read_volatile(op, addr, bitmask) ==
    /\ pc = "main" /\ rmw.at # "write_volatile"
    /\ hw' = Read(Begin(hw), addr, TRUE)
    /\ rmw' = [at |-> "write_volatile", op |-> op, addr |-> addr,
               bitmask |-> bitmask, value |-> hw.reg[addr],
               changed |-> {}, level |-> {}]
    /\ UNCHANGED <<pc, excNo, bootVars, pinVars, tickVars>>

\* self.write_volatile(value <op> bitmask), the second access
write_volatile ==
    /\ pc = "main" /\ rmw.at = "write_volatile"
    /\ hw' = Write(hw, rmw.addr, Combine(rmw.op, rmw.value, rmw.bitmask),
                   TRUE)
    /\ rmw' = [rmw EXCEPT !.at = "returned"]
    /\ UNCHANGED <<pc, excNo, bootVars, pinVars, tickVars>>

\* the hardware changes bit b of the register between the two accesses
HardwareUpdate(b) ==
    /\ rmw.at = "write_volatile"
    /\ b \in Untouched(rmw.op, rmw.bitmask)
    /\ hw' = [hw EXCEPT !.reg[rmw.addr] = BitXor(@, Bit(b))]
    /\ rmw' = [rmw EXCEPT !.changed = @ \cup {b},
                          !.level = IF b \in hw.reg[rmw.addr]
                                    THEN @ \ {b} ELSE @ \cup {b}]
    /\ UNCHANGED <<pc, excNo, bootVars, pinVars, tickVars>>

(* PinWriteProtection *)
\* mutant of unlock: bit 6 is written without the write of 0 before it
unlock_single_write(h) == Write(h, PWPR, Bit(6), TRUE)

unlock(h) == Write(Write(h, PWPR, {}, TRUE), PWPR, Bit(6), TRUE)

\* mutant of lock: bit 7 is written without the write of 0 before it
lock_single_write(h) == Write(h, PWPR, Bit(7), TRUE)

lock(h) == Write(Write(h, PWPR, {}, TRUE), PWPR, Bit(7), TRUE)

(* PinFunctionSelect<P> *)
\* mutant of set_to_input: returns without PinWriteProtection::lock
set_to_input_no_lock(h, p) == Write(unlock(h), PFSR(p), {}, TRUE)

set_to_input(h, p) == lock(Write(unlock(h), PFSR(p), {}, TRUE))

set_to_input_pullup(h, p) == lock(Write(unlock(h), PFSR(p), Bit(4), TRUE))

\* set_to_output stores with the plain ptr::write, not write_volatile
set_to_output(h, p) == lock(Write(unlock(h), PFSR(p), Bit(2), FALSE))

(* PortControl<P> *)
\* mutant of pin_is_set_high: tests bit pin instead of bit pin + 16
pin_is_set_high_low_half(h, p) == PinNo(p) \in h.reg[PCNTR1(PortOf(p))]

pin_is_set_high(h, p) == (PinNo(p) + 16) \in h.reg[PCNTR1(PortOf(p))]

\* mutant of set_pin_high: sets bit pin instead of bit pin + 16
set_pin_high_low_half(h, p) == volatile_or(h, PCNTR1(PortOf(p)), Bit(PinNo(p)))

set_pin_high(h, p) == volatile_or(h, PCNTR1(PortOf(p)), Bit(PinNo(p) + 16))

\* mutant of set_pin_low: the bitmask is not complemented
set_pin_low_no_complement(h, p) ==
    volatile_and(h, PCNTR1(PortOf(p)), Bit(PinNo(p) + 16))

set_pin_low(h, p) ==
    volatile_and(h, PCNTR1(PortOf(p)), BitNot(Bit(PinNo(p) + 16)))

\* mutant of toggle_pin_output: uses volatile_or instead of volatile_xor
toggle_pin_output_or(h, p) ==
    volatile_or(h, PCNTR1(PortOf(p)), Bit(PinNo(p) + 16))

toggle_pin_output(h, p) ==
    volatile_xor(h, PCNTR1(PortOf(p)), Bit(PinNo(p) + 16))

----------------------------------------------------------------------------
(* The vector table (lib.rs).  An entry is the union VectorTableEntry:     *)
(* either [reserved |-> 0] or [handler |-> name of the function].          *)

Handler(f) == [handler |-> f]
Reserved(v) == [reserved |-> v]
IsHandler(e) == "handler" \in DOMAIN e
IsReserved(e) == "reserved" \in DOMAIN e

RESET_VECTOR == Handler("Reset")

\* mutant of EXCEPTIONS: one reserved entry short at offsets 7-10
EXCEPTIONS_three_reserved ==
    << Handler("default_exception_handler"),
       Handler("default_exception_handler"),
       Handler("default_exception_handler"),
       Handler("default_exception_handler"),
       Handler("default_exception_handler"),
       Reserved(0),
       Reserved(0),
       Reserved(0),
       Handler("default_exception_handler"),
       Handler("default_exception_handler"),
       Reserved(0),
       Handler("default_exception_handler"),
       Handler("default_exception_handler") >>

EXCEPTIONS ==
    << Handler("default_exception_handler"),   \* 2: NMI
       Handler("default_exception_handler"),   \* 3: HardFault
       Handler("default_exception_handler"),   \* 4: MemManage
       Handler("default_exception_handler"),   \* 5: BusFault
       Handler("default_exception_handler"),   \* 6: UsageFault
       Reserved(0),                            \* 7-10: reserved
       Reserved(0),
       Reserved(0),
       Reserved(0),
       Handler("default_exception_handler"),   \* 11: SVCall
       Handler("default_exception_handler"),   \* 12: DebugMonitor
       Reserved(0),                            \* 13: reserved
       Handler("default_exception_handler"),   \* 14: PendSV
       Handler("default_exception_handler") >> \* 15: SysTick

NUM_EXTERNAL_INTERRUPTS == 32

EXTERNAL_INTERRUPTS ==
    [i \in 1..NUM_EXTERNAL_INTERRUPTS |-> Handler("default_exception_handler")]

\* The table as the CPU reads it: offset 0 is the initial stack pointer
\* (set by the linker script), offset 1 is RESET_VECTOR, then EXCEPTIONS,
\* then EXTERNAL_INTERRUPTS.
VectorTable == <<RESET_VECTOR>> \o EXCEPTIONS \o EXTERNAL_INTERRUPTS
VectorOffsets == 1..Len(VectorTable)
VectorAt(n) == VectorTable[n]

----------------------------------------------------------------------------
(* Halting (lib.rs): the panic handler and the default exception handler   *)
(* are both `loop {}`.                                                     *)

Halted == {"panic", "default_exception_handler"}
BootSteps == {"write_bytes", "copy_nonoverlapping", "__main"}
Running == BootSteps \cup {"main"}

\* The exceptions the model raises: one offset of each group of the table.
ExceptionInputs == {11, 16}

\* The arguments set_reset_value is called with in SpecTick: the bits on
\* both sides of the 24-bit boundary and bit 31.
ResetValueInputs == SUBSET {23, 24, 31}

\* The CPU takes the exception with vector-table offset n while code runs
\* and jumps to the handler the table names.  Reserved exception numbers
\* are never raised.  A halt loop executes no instruction that can fault.
Exception(n) ==
    /\ pc \in Running
    /\ n \in VectorOffsets \ {1}
    /\ IsHandler(VectorAt(n))
    /\ pc' = VectorAt(n).handler
    /\ excNo' = n
    /\ UNCHANGED <<bootVars, userVars>>

\* user code panics: control enters the #[panic_handler]
panic ==
    /\ pc = "main"
    /\ pc' = "panic"
    /\ UNCHANGED <<excNo, bootVars, userVars>>

\* mutant of Loop: the handler body is empty and returns to the user code
Loop_returns ==
    /\ pc \in Halted
    /\ pc' = "main"
    /\ UNCHANGED <<excNo, bootVars, userVars>>

\* one iteration of `loop {}` in panic or default_exception_handler
Loop ==
    /\ pc \in Halted
    /\ UNCHANGED vars

----------------------------------------------------------------------------
(* The pin type-state machine (peripherals/pins.rs).                       *)

\* mutant of ImplPin: impl Pin for $pin_type<PinModeUnknown> only
ImplPin_unknown_only(m) == m = PinModeUnknown

\* mutant of ImplOutputPin: impl<M: PinMode> OutputPin for $pin_type<M>
ImplOutputPin_any_mode(m) == m \in PinMode

\* which modes M of $pin_type<M> implement each trait
\* impl<M: PinMode> Pin for $pin_type<M>
ImplPin(m) == m \in PinMode
\* impl OutputPin for $pin_type<PinModeOutput>
ImplOutputPin(m) == m = PinModeOutput
\* impl InputPin for $pin_type<PinModeInput> and for $pin_type<PinModeInputPullup>
ImplInputPin(m) == m \in {PinModeInput, PinModeInputPullup}

\* $pin_type::<m>::new(): one more live value of pin p in mode m
new(l, p, m) == [l EXCEPT ![p][m] = @ + 1]
\* mutant of moved: the method borrows, the caller keeps its value
moved_borrowed(l, p, m) == l

\* a method taking `self` by value moves the value out of its owner
moved(l, p, m) == [l EXCEPT ![p][m] = @ - 1]

Op(op, p, from, ret) == [op |-> op, pin |-> p, from |-> from, ret |-> ret]
BoolStr(b) == IF b THEN "true" ELSE "false"

\* every driver call runs from user code, entered through __main
InMain == pc = "main"
Frame == UNCHANGED <<pc, excNo, bootVars, rmw>>

into_unknown(p, m) ==
    /\ InMain /\ live[p][m] > 0 /\ ImplPin(m)
    /\ live' = new(moved(live, p, m), p, PinModeUnknown)
    /\ hw' = Begin(hw)
    /\ lastOp' = Op("into_unknown", p, m, "unit")
    /\ Frame /\ UNCHANGED <<PORTS, pinsCalls, tickVars>>

into_output(p, m) ==
    /\ InMain /\ live[p][m] > 0 /\ ImplPin(m)
    /\ hw' = set_to_output(Begin(hw), p)
    /\ live' = new(moved(live, p, m), p, PinModeOutput)
    /\ lastOp' = Op("into_output", p, m, "unit")
    /\ Frame /\ UNCHANGED <<PORTS, pinsCalls, tickVars>>

into_input(p, m) ==
    /\ InMain /\ live[p][m] > 0 /\ ImplPin(m)
    /\ hw' = set_to_input(Begin(hw), p)
    /\ live' = new(moved(live, p, m), p, PinModeInput)
    /\ lastOp' = Op("into_input", p, m, "unit")
    /\ Frame /\ UNCHANGED <<PORTS, pinsCalls, tickVars>>

into_input_pullup(p, m) ==
    /\ InMain /\ live[p][m] > 0 /\ ImplPin(m)
    /\ hw' = set_to_input_pullup(Begin(hw), p)
    /\ live' = new(moved(live, p, m), p, PinModeInputPullup)
    /\ lastOp' = Op("into_input_pullup", p, m, "unit")
    /\ Frame /\ UNCHANGED <<PORTS, pinsCalls, tickVars>>

(* OutputPin *)
\* pin_is_set_high reads PCNTR1 with the plain ptr::read
is_set_high(p, m) ==
    /\ InMain /\ live[p][m] > 0 /\ ImplOutputPin(m)
    /\ hw' = Read(Begin(hw), PCNTR1(PortOf(p)), FALSE)
    /\ lastOp' = Op("is_set_high", p, m, BoolStr(pin_is_set_high(hw, p)))
    /\ Frame /\ UNCHANGED <<PORTS, live, pinsCalls, tickVars>>

set_high(p, m) ==
    /\ InMain /\ live[p][m] > 0 /\ ImplOutputPin(m)
    /\ hw' = set_pin_high(Begin(hw), p)
    /\ lastOp' = Op("set_high", p, m, "unit")
    /\ Frame /\ UNCHANGED <<PORTS, live, pinsCalls, tickVars>>

set_low(p, m) ==
    /\ InMain /\ live[p][m] > 0 /\ ImplOutputPin(m)
    /\ hw' = set_pin_low(Begin(hw), p)
    /\ lastOp' = Op("set_low", p, m, "unit")
    /\ Frame /\ UNCHANGED <<PORTS, live, pinsCalls, tickVars>>

\* OutputPin::set (provided method): dispatches on the PinStatus
set(p, m, status) ==
    /\ InMain /\ live[p][m] > 0 /\ ImplOutputPin(m)
    /\ hw' = CASE status = "Low" -> set_pin_low(Begin(hw), p)
               [] status = "High" -> set_pin_high(Begin(hw), p)
    /\ lastOp' = [op |-> "set", pin |-> p, from |-> m, ret |-> "unit",
                  status |-> status]
    /\ Frame /\ UNCHANGED <<PORTS, live, pinsCalls, tickVars>>

toggle(p, m) ==
    /\ InMain /\ live[p][m] > 0 /\ ImplOutputPin(m)
    /\ hw' = toggle_pin_output(Begin(hw), p)
    /\ lastOp' = Op("toggle", p, m, "unit")
    /\ Frame /\ UNCHANGED <<PORTS, live, pinsCalls, tickVars>>

(* InputPin.  pin_is_high reads PCNTR2 (plain ptr::read), whose bits are   *)
(* the levels on the pins: the hardware decides what the read returns.     *)
PortInput(p, level) == IF level THEN Bit(PinNo(p)) ELSE {}

pin_is_high(h, p, level) ==
    [h EXCEPT !.log = Append(h.log, Access("read", PCNTR2(PortOf(p)),
                                           PortInput(p, level), FALSE))]

is_high(p, m, level) ==
    /\ InMain /\ live[p][m] > 0 /\ ImplInputPin(m)
    /\ hw' = pin_is_high(Begin(hw), p, level)
    /\ lastOp' = Op("is_high", p, m, BoolStr(PinNo(p) \in PortInput(p, level)))
    /\ Frame /\ UNCHANGED <<PORTS, live, pinsCalls, tickVars>>

\* mutant of is_low: returns self.is_high() without the negation
is_low_not_negated(p, m, level) ==
    /\ InMain /\ live[p][m] > 0 /\ ImplInputPin(m)
    /\ hw' = pin_is_high(Begin(hw), p, level)
    /\ lastOp' = Op("is_low", p, m, BoolStr(PinNo(p) \in PortInput(p, level)))
    /\ Frame /\ UNCHANGED <<PORTS, live, pinsCalls, tickVars>>

\* InputPin::is_low (provided method): !self.is_high()
is_low(p, m, level) ==
    /\ InMain /\ live[p][m] > 0 /\ ImplInputPin(m)
    /\ hw' = pin_is_high(Begin(hw), p, level)
    /\ lastOp' = Op("is_low", p, m, BoolStr(~(PinNo(p) \in PortInput(p, level))))
    /\ Frame /\ UNCHANGED <<PORTS, live, pinsCalls, tickVars>>

\* InputPin::get_status (provided method)
get_status(p, m, level) ==
    /\ InMain /\ live[p][m] > 0 /\ ImplInputPin(m)
    /\ hw' = pin_is_high(Begin(hw), p, level)
    /\ lastOp' = Op("get_status", p, m,
                    IF PinNo(p) \in PortInput(p, level) THEN "High" ELSE "Low")
    /\ Frame /\ UNCHANGED <<PORTS, live, pinsCalls, tickVars>>

\* false for PinModeInput, true for PinModeInputPullup; no register access
is_input_pullup(p, m) ==
    /\ InMain /\ live[p][m] > 0 /\ ImplInputPin(m)
    /\ hw' = Begin(hw)
    /\ lastOp' = Op("is_input_pullup", p, m, BoolStr(m = PinModeInputPullup))
    /\ Frame /\ UNCHANGED <<PORTS, live, pinsCalls, tickVars>>

----------------------------------------------------------------------------
(* The port registry (peripherals/pins.rs).                                *)

\* mutant of take: the content is returned and also left in place
take_keeps(opt) == [ret |-> opt, left |-> opt]

\* Option::take: returns the content and leaves None behind
take(opt) == [ret |-> opt, left |-> "None"]

\* the number of values of pin p that get_pins moves into ArduinoPins: one
\* for each field that is assigned p out of the split of p's port
Handed(p) ==
    Cardinality({n \in DOMAIN ArduinoPins :
                    ArduinoPins[n] = p /\ p \in split(PortOf(p))})

get_pins ==
    /\ InMain /\ Len(pinsCalls) < MaxCalls
    /\ LET t == take(PORTS) IN
        /\ PORTS' = t.left
        /\ IF t.ret = "Some"
           THEN /\ live' = [p \in Pins |->
                             [live[p] EXCEPT ![PinModeUnknown] = @ + Handed(p)]]
                /\ pinsCalls' = Append(pinsCalls, "Some")
                /\ lastOp' = Op("get_pins", NoPin, PinModeUnknown, "Some")
           ELSE /\ live' = live
                /\ pinsCalls' = Append(pinsCalls, "None")
                /\ lastOp' = Op("get_pins", NoPin, PinModeUnknown, "None")
    /\ hw' = Begin(hw)
    /\ Frame /\ UNCHANGED tickVars

----------------------------------------------------------------------------
(* The SysTick singleton accessor (peripherals/systick.rs).                *)

\* SysTick::new
SysTick_new == [enabled |-> FALSE]

TickOp(op, self, ret) == [op |-> op, self |-> self, ret |-> ret]

\* SysTick::instance: the function reads SYSTICK_CREATED and never writes it
SysTick_instance ==
    /\ InMain /\ Len(tickCalls) < MaxCalls
    /\ IF ~SYSTICK_CREATED
       THEN /\ systicks' = Append(systicks, SysTick_new)
            /\ tickCalls' = Append(tickCalls, "Some")
            /\ tickOp' = TickOp("instance", 0, "Some")
       ELSE /\ systicks' = systicks
            /\ tickCalls' = Append(tickCalls, "None")
            /\ tickOp' = TickOp("instance", 0, "None")
    /\ SYSTICK_CREATED' = SYSTICK_CREATED
    /\ hw' = Begin(hw)
    /\ edges' = 0
    /\ Frame /\ UNCHANGED <<pinVars, wraps>>

\* mutant of enable: CSR.write_volatile(1) without the read of CSR
enable_write_only(i) ==
    /\ InMain /\ i \in DOMAIN systicks
    /\ hw' = Write(Begin(hw), CSR, Bit(0), TRUE)
    /\ systicks' = [systicks EXCEPT ![i].enabled = TRUE]
    /\ tickOp' = TickOp("enable", i, "unit")
    /\ wraps' = 0 /\ edges' = 0
    /\ Frame /\ UNCHANGED <<pinVars, SYSTICK_CREATED, tickCalls>>

\* SysTick::enable on the i-th value handed out
enable(i) ==
    /\ InMain /\ i \in DOMAIN systicks
    /\ hw' = volatile_or(Begin(hw), CSR, Bit(0))
    /\ systicks' = [systicks EXCEPT ![i].enabled = TRUE]
    /\ tickOp' = TickOp("enable", i, "unit")
    /\ wraps' = 0 /\ edges' = 0
    /\ Frame /\ UNCHANGED <<pinVars, SYSTICK_CREATED, tickCalls>>

\* SysTick::disable
disable(i) ==
    /\ InMain /\ i \in DOMAIN systicks
    /\ hw' = volatile_and(Begin(hw), CSR, BitNot(Bit(0)))
    /\ systicks' = [systicks EXCEPT ![i].enabled = FALSE]
    /\ tickOp' = TickOp("disable", i, "unit")
    /\ wraps' = 0 /\ edges' = 0
    /\ Frame /\ UNCHANGED <<pinVars, SYSTICK_CREATED, tickCalls>>

\* SysTick::is_enabled: reads the field, not the register
is_enabled(i) ==
    /\ InMain /\ i \in DOMAIN systicks
    /\ hw' = Begin(hw)
    /\ tickOp' = TickOp("is_enabled", i, BoolStr(systicks[i].enabled))
    /\ edges' = 0
    /\ Frame
    /\ UNCHANGED <<pinVars, SYSTICK_CREATED, systicks, tickCalls, wraps>>

\* a SysTick method with an argument: [op, self, arg, ret]
TickCall(op, self, arg, ret) ==
    [op |-> op, self |-> self, arg |-> arg, ret |-> ret]

\* the literal 0x00ffffff
Low24 == 0..23

\* mutant of timer_wrapped: tests bit 0 instead of bit 16
timer_wrapped_bit0(i) ==
    /\ InMain /\ i \in DOMAIN systicks
    /\ hw' = Read(Begin(hw), CSR, TRUE)
    /\ tickOp' = TickOp("timer_wrapped", i,
                        BoolStr(BitAnd(hw.reg[CSR], Bit(0)) # {}))
    /\ wraps' = 0 /\ edges' = 0
    /\ Frame
    /\ UNCHANGED <<pinVars, SYSTICK_CREATED, systicks, tickCalls>>

\* SysTick::timer_wrapped: the read of CSR clears bit 16
timer_wrapped(i) ==
    /\ InMain /\ i \in DOMAIN systicks
    /\ hw' = Read(Begin(hw), CSR, TRUE)
    /\ tickOp' = TickOp("timer_wrapped", i,
                        BoolStr(BitAnd(hw.reg[CSR], Bit(16)) # {}))
    /\ wraps' = 0 /\ edges' = 0
    /\ Frame
    /\ UNCHANGED <<pinVars, SYSTICK_CREATED, systicks, tickCalls>>

\* SysTick::get_current_value
get_current_value(i) ==
    /\ InMain /\ i \in DOMAIN systicks
    /\ hw' = Read(Begin(hw), CVR, TRUE)
    /\ tickOp' = TickOp("get_current_value", i, hw.reg[CVR])
    /\ edges' = 0
    /\ Frame
    /\ UNCHANGED <<pinVars, SYSTICK_CREATED, systicks, tickCalls, wraps>>

\* mutant of reset: the store goes to RVR instead of CVR
reset_writes_rvr(i) ==
    /\ InMain /\ i \in DOMAIN systicks
    /\ hw' = Write(Begin(hw), RVR, {}, FALSE)
    /\ tickOp' = TickOp("reset", i, "unit")
    /\ edges' = 0
    /\ Frame
    /\ UNCHANGED <<pinVars, SYSTICK_CREATED, systicks, tickCalls, wraps>>

\* SysTick::reset: stores with the plain ptr::write, not write_volatile
reset(i) ==
    /\ InMain /\ i \in DOMAIN systicks
    /\ hw' = Write(Begin(hw), CVR, {}, FALSE)
    /\ tickOp' = TickOp("reset", i, "unit")
    /\ edges' = 0
    /\ Frame
    /\ UNCHANGED <<pinVars, SYSTICK_CREATED, systicks, tickCalls, wraps>>

\* mutant of set_reset_value: the mask is 0x0000ffff
set_reset_value_low16(i, reset_value) ==
    /\ InMain /\ i \in DOMAIN systicks
    /\ LET clamped_reset_value == BitAnd(reset_value, 0..15) IN
        hw' = Write(Begin(hw), RVR, clamped_reset_value, TRUE)
    /\ tickOp' = TickCall("set_reset_value", i, reset_value, "unit")
    /\ edges' = 0
    /\ Frame
    /\ UNCHANGED <<pinVars, SYSTICK_CREATED, systicks, tickCalls, wraps>>

\* SysTick::set_reset_value
set_reset_value(i, reset_value) ==
    /\ InMain /\ i \in DOMAIN systicks
    /\ LET clamped_reset_value == BitAnd(reset_value, Low24) IN
        hw' = Write(Begin(hw), RVR, clamped_reset_value, TRUE)
    /\ tickOp' = TickCall("set_reset_value", i, reset_value, "unit")
    /\ edges' = 0
    /\ Frame
    /\ UNCHANGED <<pinVars, SYSTICK_CREATED, systicks, tickCalls, wraps>>

\* SysTick::get_reset_value
get_reset_value(i) ==
    /\ InMain /\ i \in DOMAIN systicks
    /\ hw' = Read(Begin(hw), RVR, TRUE)
    /\ tickOp' = TickOp("get_reset_value", i, BitAnd(hw.reg[RVR], Low24))
    /\ edges' = 0
    /\ Frame
    /\ UNCHANGED <<pinVars, SYSTICK_CREATED, systicks, tickCalls, wraps>>

----------------------------------------------------------------------------
(* The timer hardware, as the comments of systick.rs describe it: "When    *)
(* enabled, the timer value ticks down until it reaches 0, then wraps      *)
(* around to a configurable reset value", and bit 16 of CSR tells whether  *)
(* CVR reached 0 since CSR was last read.                                  *)

Min(a, b) == IF a < b THEN a ELSE b
\* the lowest set bit of a non-zero value
LowestBit(v) == CHOOSE k \in v : \A j \in v : k <= j
\* v - 1 for a non-zero v
Decrement(v) == (v \ {LowestBit(v)}) \cup {j \in Word : j < LowestBit(v)}

\* one clock edge of the running timer (bit 0 of CSR is set): a CVR of 0
\* takes the reset value from the low 24 bits of RVR, any other CVR ticks
\* down by one and sets bit 16 of CSR when it reaches 0
Clock ==
    /\ pc \in Running
    /\ 0 \in hw.reg[CSR]
    /\ LET next == IF hw.reg[CVR] = {} THEN BitAnd(hw.reg[RVR], Low24)
                                       ELSE Decrement(hw.reg[CVR]) IN
        /\ hw' = [hw EXCEPT !.reg[CVR] = next,
                            !.reg[CSR] = IF hw.reg[CVR] # {} /\ next = {}
                                         THEN BitOr(@, Bit(16)) ELSE @]
        /\ wraps' = IF hw.reg[CVR] # {} /\ next = {}
                    THEN Min(wraps + 1, MaxCount) ELSE wraps
    /\ edges' = Min(edges + 1, MaxCount)
    /\ UNCHANGED <<pc, excNo, bootVars, pinVars, SYSTICK_CREATED, systicks,
                   tickCalls, tickOp, rmw>>

----------------------------------------------------------------------------
(* The boot sequence (lib.rs).  Flash occupies addresses 0..FlashSize-1,   *)
(* RAM the RamSize addresses after it.                                     *)

FlashSize == RamSize
Flash == 0..(FlashSize - 1)
Ram == FlashSize..(FlashSize + RamSize - 1)
Addr == Flash \cup Ram
\* the byte values of the model: 0x00 and 0xff
Byte == {0, 255}

\* The linker symbols initialize_ram consumes (declared at lib.rs:44-50, set
\* by the linker script): the zero-fill region [_sbss, _ebss) and the data
\* region [_sdata, _edata) lie in RAM and do not overlap, the data image of
\* _edata - _sdata bytes at _sidata lies in flash.
Layouts ==
    {l \in [sbss : Ram \cup {FlashSize + RamSize},
            ebss : Ram \cup {FlashSize + RamSize},
            sdata : Ram \cup {FlashSize + RamSize},
            edata : Ram \cup {FlashSize + RamSize},
            sidata : Flash] :
        /\ l.sbss <= l.ebss
        /\ l.sdata <= l.edata
        /\ (l.ebss <= l.sdata \/ l.edata <= l.sbss)
        /\ l.sidata + (l.edata - l.sdata) <= FlashSize}

\* ptr::write_bytes(dst, val, count)
ptr_write_bytes(m, dst, val, count) ==
    [a \in DOMAIN m |-> IF dst <= a /\ a < dst + count THEN val ELSE m[a]]

\* ptr::copy_nonoverlapping(src, dst, count)
ptr_copy_nonoverlapping(m, src, dst, count) ==
    [a \in DOMAIN m |->
        IF dst <= a /\ a < dst + count THEN m[src + (a - dst)] ELSE m[a]]

\* the addresses a bulk operation of count bytes at dst stores to
Span(dst, count) == {a \in Addr : dst <= a /\ a < dst + count}

\* the statements of initialize_ram and of the Reset handler, in order
initialize_ram == <<"write_bytes", "copy_nonoverlapping">>

\* mutant of Reset: __main() is called before initialize_ram()
Reset_main_first == <<"__main">> \o initialize_ram

Reset == initialize_ram \o <<"__main">>

\* the statement that follows statement s of Reset
After(s) ==
    LET i == CHOOSE k \in 1..Len(Reset) : Reset[k] = s
    IN  IF i < Len(Reset) THEN Reset[i + 1] ELSE "return"

\* lib.rs:58-59: count_bss = ebss - sbss; ptr::write_bytes(sbss, 0, count_bss)
initialize_ram_bss ==
    /\ pc = "write_bytes"
    /\ LET count_bss == layout.ebss - layout.sbss IN
        /\ mem' = ptr_write_bytes(mem, layout.sbss, 0, count_bss)
        /\ written' = written \cup Span(layout.sbss, count_bss)
    /\ bootLog' = Append(bootLog, "write_bytes")
    /\ pc' = After("write_bytes")
    /\ UNCHANGED <<excNo, layout, userVars>>

\* mutant of initialize_ram_data: count_data is one byte short
initialize_ram_data_short ==
    /\ pc = "copy_nonoverlapping"
    /\ LET count_data == layout.edata - layout.sdata - 1 IN
        /\ mem' = ptr_copy_nonoverlapping(mem, layout.sidata, layout.sdata,
                                          count_data)
        /\ written' = written \cup Span(layout.sdata, count_data)
    /\ bootLog' = Append(bootLog, "copy_nonoverlapping")
    /\ pc' = After("copy_nonoverlapping")
    /\ UNCHANGED <<excNo, layout, userVars>>

\* lib.rs:60-61: count_data = edata - sdata;
\* ptr::copy_nonoverlapping(sidata, sdata, count_data)
initialize_ram_data ==
    /\ pc = "copy_nonoverlapping"
    /\ LET count_data == layout.edata - layout.sdata IN
        /\ mem' = ptr_copy_nonoverlapping(mem, layout.sidata, layout.sdata,
                                          count_data)
        /\ written' = written \cup Span(layout.sdata, count_data)
    /\ bootLog' = Append(bootLog, "copy_nonoverlapping")
    /\ pc' = After("copy_nonoverlapping")
    /\ UNCHANGED <<excNo, layout, userVars>>

\* lib.rs:77 and the entry! macro: __main() calls the user entry function,
\* which has type fn() -> ! and so never returns
entry ==
    /\ pc = "__main"
    /\ bootLog' = Append(bootLog, "__main")
    /\ pc' = "main"
    /\ UNCHANGED <<excNo, mem, written, layout, userVars>>

----------------------------------------------------------------------------
(* Specifications.                                                         *)

\* the statics and registers as the image and the hardware reset leave
\* them; PWPR's reset value is not fixed by the source
InitUser ==
    /\ PORTS = "Some"
    /\ live = [p \in Pins |-> [m \in PinMode |-> 0]]
    /\ hw \in {[reg |-> [a \in Registers |-> IF a = PWPR THEN w ELSE {}],
                log |-> <<>>] : w \in SUBSET {6, 7}}
    /\ lastOp = Op("none", NoPin, PinModeUnknown, "unit")
    /\ pinsCalls = <<>>
    /\ SYSTICK_CREATED = FALSE
    /\ systicks = <<>>
    /\ tickCalls = <<>>
    /\ tickOp = TickOp("none", 0, "unit")
    /\ wraps = 0
    /\ edges = 0
    /\ rmw = Idle

\* SpecBoot: from reset to the user entry function, over every layout and
\* every content of memory
InitBoot ==
    /\ pc = Reset[1]
    /\ excNo = 0
    /\ layout \in Layouts
    /\ mem \in [Addr -> Byte]
    /\ written = {}
    /\ bootLog = <<>>
    /\ InitUser

NextBoot ==
    \/ initialize_ram_bss
    \/ initialize_ram_data
    \/ entry
    \/ \E n \in ExceptionInputs : Exception(n)
    \/ panic
    \/ Loop

SpecBoot == InitBoot /\ [][NextBoot]_vars

\* Spec: the user entry function has been entered and calls the drivers
Entered ==
    /\ pc = "main"
    /\ excNo = 0
    /\ layout = [sbss |-> FlashSize, ebss |-> FlashSize, sdata |-> FlashSize,
                 edata |-> FlashSize, sidata |-> 0]
    /\ mem = [a \in Addr |-> 0]
    /\ written = {}
    /\ bootLog = Reset

Init == Entered /\ InitUser

Next ==
    \/ get_pins
    \/ \E p \in Pins, m \in PinMode :
        \/ into_unknown(p, m)
        \/ into_output(p, m)
        \/ into_input(p, m)
        \/ into_input_pullup(p, m)
        \/ is_set_high(p, m)
        \/ set_high(p, m)
        \/ set_low(p, m)
        \/ \E status \in {"Low", "High"} : set(p, m, status)
        \/ toggle(p, m)
        \/ is_input_pullup(p, m)
        \/ \E level \in BOOLEAN :
            \/ is_high(p, m, level)
            \/ is_low(p, m, level)
            \/ get_status(p, m, level)
    \/ \E n \in ExceptionInputs : Exception(n)
    \/ panic
    \/ Loop

Spec == Init /\ [][Next]_vars

\* SpecTick: the user entry function calls the SysTick driver
NextTick ==
    \/ SysTick_instance
    \/ \E i \in 1..MaxCalls :
        \/ enable(i)
        \/ disable(i)
        \/ is_enabled(i)
        \/ \E v \in ResetValueInputs : set_reset_value(i, v)
        \/ get_reset_value(i)
    \/ \E n \in ExceptionInputs : Exception(n)
    \/ panic
    \/ Loop

SpecTick == Init /\ [][NextTick]_vars

\* SpecTimer: user code holds one SysTick value and calls its methods while
\* the timer hardware counts.  RVR and CVR hold any value at power-up, CSR
\* is clear.
TimerValues == SUBSET (0..(TimerBits - 1))

InitTimer ==
    /\ Entered
    /\ PORTS = "Some"
    /\ live = [p \in Pins |-> [m \in PinMode |-> 0]]
    /\ hw \in {[reg |-> [a \in Registers |-> IF a = RVR THEN r
                                            ELSE IF a = CVR THEN c ELSE {}],
                log |-> <<>>] : r \in TimerValues, c \in TimerValues}
    /\ lastOp = Op("none", NoPin, PinModeUnknown, "unit")
    /\ pinsCalls = <<>>
    /\ SYSTICK_CREATED = FALSE
    /\ systicks = <<SysTick_new>>
    /\ tickCalls = <<"Some">>
    /\ tickOp = TickOp("instance", 0, "Some")
    /\ wraps = 0
    /\ edges = 0
    /\ rmw = Idle

NextTimer ==
    \/ \E i \in DOMAIN systicks :
        \/ enable(i)
        \/ disable(i)
        \/ is_enabled(i)
        \/ timer_wrapped(i)
        \/ get_current_value(i)
        \/ reset(i)
        \/ \E v \in TimerValues : set_reset_value(i, v)
        \/ get_reset_value(i)
    \/ Clock
    \/ \E n \in ExceptionInputs : Exception(n)
    \/ panic
    \/ Loop

SpecTimer == InitTimer /\ [][NextTimer]_vars

\* SpecOut: get_pins() has handed out the pins; user code moves pins to
\* Output and drives them.  The port control registers hold any content
\* when the first pin is driven.
PriorBits == {0} \cup {PinNo(p) + 16 : p \in Pins}
PriorContents(port) ==
    SUBSET ({0} \cup {PinNo(p) + 16 : p \in {q \in Pins : PortOf(q) = port}})
PriorPorts ==
    {c \in [{PCNTR1(q) : q \in Ports} -> SUBSET PriorBits] :
        \A q \in Ports : c[PCNTR1(q)] \in PriorContents(q)}

InitOut ==
    /\ Entered
    /\ PORTS = "None"
    /\ live = [p \in Pins |->
                [m \in PinMode |-> IF m = PinModeUnknown THEN Handed(p) ELSE 0]]
    /\ hw \in {[reg |-> [a \in Registers |->
                            IF a = PWPR THEN w
                            ELSE IF a \in {PCNTR1(q) : q \in Ports}
                            THEN c[a] ELSE {}],
                log |-> <<>>] :
                w \in SUBSET {6, 7}, c \in PriorPorts}
    /\ lastOp = Op("get_pins", NoPin, PinModeUnknown, "Some")
    /\ pinsCalls = <<"Some">>
    /\ SYSTICK_CREATED = FALSE
    /\ systicks = <<>>
    /\ tickCalls = <<>>
    /\ tickOp = TickOp("none", 0, "unit")
    /\ wraps = 0
    /\ edges = 0
    /\ rmw = Idle

NextOut ==
    \/ \E p \in Pins, m \in PinMode :
        \/ into_output(p, m)
        \/ is_set_high(p, m)
        \/ set_high(p, m)
        \/ set_low(p, m)
        \/ \E status \in {"Low", "High"} : set(p, m, status)
        \/ toggle(p, m)
    \/ \E n \in ExceptionInputs : Exception(n)
    \/ panic
    \/ Loop

SpecOut == InitOut /\ [][NextOut]_vars

\* SpecRmw: user code moves pins to Output and runs the primitives that
\* drive them (set_pin_high, set_pin_low, toggle_pin_output), one bus access
\* per step; the hardware may change another bit of the port's register
\* between the two accesses of a primitive.
NextRmw ==
    \/ \E p \in Pins, m \in PinMode :
        rmw.at # "write_volatile" /\ into_output(p, m)
    \/ \E p \in Pins :
        /\ live[p][PinModeOutput] > 0
        /\ \/ read_volatile("volatile_or", PCNTR1(PortOf(p)),
                            Bit(PinNo(p) + 16))
           \/ read_volatile("volatile_and", PCNTR1(PortOf(p)),
                            BitNot(Bit(PinNo(p) + 16)))
           \/ read_volatile("volatile_xor", PCNTR1(PortOf(p)),
                            Bit(PinNo(p) + 16))
    \/ write_volatile
    \/ \E b \in PriorBits : HardwareUpdate(b)

SpecRmw == InitOut /\ [][NextRmw]_vars

----------------------------------------------------------------------------
(* Properties.                                                             *)

Somes(calls) == {i \in DOMAIN calls : calls[i] = "Some"}
LiveValues(p) ==
    live[p][PinModeUnknown] + live[p][PinModeOutput] + live[p][PinModeInput]
    + live[p][PinModeInputPullup]
ConfigOps == {"into_output", "into_input", "into_input_pullup"}
OutputOps == {"is_set_high", "set_high", "set_low", "set", "toggle"}
InputOps == {"is_high", "is_low", "get_status", "is_input_pullup"}
Target(op) ==
    CASE op = "into_unknown" -> PinModeUnknown
      [] op = "into_output" -> PinModeOutput
      [] op = "into_input" -> PinModeInput
      [] op = "into_input_pullup" -> PinModeInputPullup
d13 == ArduinoPins["d13"]
d10 == ArduinoPins["d10"]
\* the configuration value each transition writes to the pin's PFSR
Configuration(op) ==
    CASE op = "into_output" -> Bit(2)
      [] op = "into_input" -> {}
      [] op = "into_input_pullup" -> Bit(4)
Issued(log) == [i \in DOMAIN log |-> <<log[i].kind, log[i].addr, log[i].val>>]
IsPrefix(s, t) == Len(s) <= Len(t) /\ \A i \in DOMAIN s : s[i] = t[i]
\* a table as the sequence of its entries' roles
Kinds(table) ==
    [i \in DOMAIN table |->
        IF IsReserved(table[i]) /\ table[i].reserved = 0 THEN "zero"
        ELSE IF IsHandler(table[i]) THEN table[i].handler
        ELSE "other"]
Default == "default_exception_handler"
\* a step taken inside a halt loop changes nothing
StaysHalted ==
    pc \in Halted =>
        /\ pc' = pc
        /\ UNCHANGED <<excNo, bootVars, userVars>>
\* the level of pin p's output bit in the value the last operation read
LevelRead(p) == (PinNo(p) + 16) \in hw.log[1].val
DriveOps == {"set_high", "set_low", "set"}
\* some transition that writes a function-select register has completed:
\* it was the last call, or it left a pin value in a configured state, or
\* it left a value in the pin's function-select register
Configured ==
    \/ lastOp.op \in ConfigOps
    \/ \E p \in Pins : live[p][PinModeUnknown] < LiveValues(p)
    \/ \E p \in Pins : hw.reg[PFSR(p)] # {}
\* the level a set_high, set_low or set call asks for
DrivesHigh(call) ==
    call.op = "set_high" \/ (call.op = "set" /\ call.status = "High")

\* C1 (as claimed; the code violates it): among the calls of
\* SysTick::instance() at most one returns Some, and every call after a
\* call that returned Some returns None.
C1_InstanceAtMostOnce ==
    /\ Cardinality(Somes(tickCalls)) <= 1
    /\ \A i, j \in DOMAIN tickCalls :
        (i < j /\ tickCalls[i] = "Some") => tickCalls[j] = "None"

\* C2: the first call of get_pins() returns Some and every later call
\* returns None.
C2_GetPinsOnce ==
    \A i \in DOMAIN pinsCalls :
        pinsCalls[i] = IF i = 1 THEN "Some" ELSE "None"

C2_Witness ==
    /\ Len(pinsCalls) >= 3
    /\ pinsCalls[1] = "Some" /\ pinsCalls[2] = "None" /\ pinsCalls[3] = "None"

\* C3: after any sequence of get_pins() calls and pin transitions, each
\* physical pin has at most one live value.
C3_OneLiveValuePerPin == \A p \in Pins : LiveValues(p) <= 1

C3_Witness ==
    /\ Len(pinsCalls) >= 2
    /\ lastOp.op = "into_unknown" /\ lastOp.from = PinModeInput
    /\ \E p \in Pins : live[p][PinModeOutput] = 1
    /\ \A p \in Pins : LiveValues(p) = 1

\* C4 (as claimed; refuted): into_output, into_input and into_input_pullup
\* are called only on a pin value in state PinModeUnknown: no call takes a
\* pin from Output, Input or InputWithPullup to another configured state.
C4_OnlyFromUnconfigured ==
    (lastOp.op \in ConfigOps /\ Target(lastOp.op) # lastOp.from) =>
        lastOp.from = PinModeUnknown

\* C4 (amended): a live pin value in any of the four states offers
\* into_unknown, into_output, into_input and into_input_pullup (its type
\* implements Pin), and the call leaves the pin with one live value, in the
\* state the call names.
C4_TransitionsFromEveryState ==
    /\ \A p \in Pins, m \in PinMode : live[p][m] > 0 => ImplPin(m)
    /\ lastOp.op \in ConfigOps \cup {"into_unknown"} =>
        /\ live[lastOp.pin][Target(lastOp.op)] = 1
        /\ LiveValues(lastOp.pin) = 1

C4_Witness ==
    /\ lastOp.op = "into_input" /\ lastOp.from = PinModeOutput
    /\ live[lastOp.pin][PinModeInput] = 1

\* C5: the output operations are called only on a pin value in state
\* PinModeOutput, the input queries only on one in state PinModeInput or
\* PinModeInputPullup; a live value in another state does not offer them
\* (its type does not implement OutputPin, respectively InputPin).
C5_OperationsByState ==
    /\ lastOp.op \in OutputOps => lastOp.from = PinModeOutput
    /\ lastOp.op \in InputOps =>
        lastOp.from \in {PinModeInput, PinModeInputPullup}
    /\ \A p \in Pins, m \in PinMode :
        live[p][m] > 0 =>
            /\ ImplOutputPin(m) <=> m = PinModeOutput
            /\ ImplInputPin(m) <=> m \in {PinModeInput, PinModeInputPullup}

C5_Witness ==
    /\ lastOp.op = "toggle" /\ lastOp.from = PinModeOutput
    /\ \E p \in Pins : live[p][PinModeInputPullup] = 1 /\ p # lastOp.pin

\* C6: each of into_output, into_input and into_input_pullup issues exactly
\* the writes PWPR := 0, PWPR := 1 << 6, PFSR := configuration, PWPR := 0,
\* PWPR := 1 << 7, in this order, and no other register access.
C6_UnlockWriteLock ==
    lastOp.op \in ConfigOps =>
        Issued(hw.log) = << <<"write", PWPR, {}>>,
                            <<"write", PWPR, Bit(6)>>,
                            <<"write", PFSR(lastOp.pin), Configuration(lastOp.op)>>,
                            <<"write", PWPR, {}>>,
                            <<"write", PWPR, Bit(7)>> >>

C6_Witness ==
    /\ lastOp.op = "into_input_pullup" /\ lastOp.pin = d10
    /\ Len(hw.log) = 5
    /\ hw.reg[PFSR(d10)] = Bit(4)

\* C7: the steps of the boot are taken in the order zero-fill, data copy,
\* call of the user entry function: the user entry function runs only
\* after both memory steps are done.
C7_InitBeforeMain ==
    /\ IsPrefix(bootLog, <<"write_bytes", "copy_nonoverlapping", "__main">>)
    /\ pc \in {"main", "panic"} => Len(bootLog) = 3

C7_Witness ==
    /\ pc = "main"
    /\ bootLog = <<"write_bytes", "copy_nonoverlapping", "__main">>
    /\ layout.ebss - layout.sbss >= 1
    /\ layout.edata - layout.sdata >= 1

\* C8: after the zero fill every byte of [_sbss, _ebss) is 0, and after
\* initialize_ram also every byte at _sdata + i equals the byte at
\* _sidata + i for 0 <= i < _edata - _sdata; exactly the bytes of the two
\* regions are written, so a region of length 0 causes no write.
C8_RamInitialized ==
    /\ Len(bootLog) >= 1 =>
        \A a \in Span(layout.sbss, layout.ebss - layout.sbss) : mem[a] = 0
    /\ Len(bootLog) >= 2 =>
        /\ \A i \in 0..(layout.edata - layout.sdata - 1) :
            mem[layout.sdata + i] = mem[layout.sidata + i]
        /\ written = Span(layout.sbss, layout.ebss - layout.sbss)
                     \cup Span(layout.sdata, layout.edata - layout.sdata)

C8_Witness ==
    /\ Len(bootLog) >= 2
    /\ layout.ebss - layout.sbss = 1
    /\ layout.edata - layout.sdata = 2
    /\ mem[layout.sbss] = 0
    /\ mem[layout.sdata] = 255 /\ mem[layout.sdata + 1] = 0
    /\ mem[layout.sidata] = 255 /\ mem[layout.sidata + 1] = 0

C8_WitnessEmpty ==
    /\ Len(bootLog) >= 2
    /\ layout.ebss = layout.sbss /\ layout.edata = layout.sdata
    /\ written = {}
    /\ \E a \in Ram : mem[a] = 255

\* C9 (as claimed; refuted): the table the CPU reads when it takes an
\* exception holds, after the reset vector, NMI,
\* HardFault, MemManage, BusFault, UsageFault, three reserved zeros, SVCall,
\* DebugMonitor, one reserved zero, PendSV, SysTick, then 32 external
\* interrupt entries; reserved entries hold 0, the others the default
\* handler.
C9_ThreeReservedSlots ==
    excNo # 0 =>
        /\ Kinds(EXCEPTIONS) =
            <<Default, Default, Default, Default, Default, "zero", "zero",
              "zero", Default, Default, "zero", Default, Default>>
        /\ Kinds(EXTERNAL_INTERRUPTS) = [i \in 1..32 |-> Default]

\* C9 (amended): offsets 2-15 of the vector table are NMI, HardFault,
\* MemManage, BusFault, UsageFault, four reserved zeros (7-10), SVCall (11),
\* DebugMonitor (12), one reserved zero (13), PendSV (14), SysTick (15);
\* offsets 16-47 are 32 external interrupt entries; reserved entries hold 0,
\* every other entry is the default handler, which an exception enters.
C9_VectorTableLayout ==
    /\ Len(VectorTable) = 47
    /\ \A n \in 2..47 :
        IF n \in {7, 8, 9, 10, 13}
        THEN IsReserved(VectorAt(n)) /\ VectorAt(n).reserved = 0
        ELSE IsHandler(VectorAt(n)) /\ VectorAt(n).handler = Default
    /\ excNo # 0 => pc = Default /\ excNo \notin {7, 8, 9, 10, 13}

C9_Witness == excNo = 11 /\ pc = Default

\* C10: once the panic handler or the default exception handler is entered,
\* control stays in it and nothing changes any more: no driver call runs and
\* no register or memory location is written.
C10_HaltIsFinal == [][StaysHalted]_vars

C10_Witness ==
    /\ pc = "default_exception_handler"
    /\ \E p \in Pins : live[p][PinModeOutput] = 1
    /\ PORTS = "None"

\* C11: set_reset_value(v) followed by get_reset_value() returns
\* v & 0x00ffffff, for every argument v.
C11_MaskedRoundTrip ==
    [][(tickOp.op = "set_reset_value" /\ tickOp'.op = "get_reset_value") =>
            tickOp'.ret = BitAnd(tickOp.arg, Low24)]_vars

C11_Witness ==
    /\ tickOp.op = "get_reset_value" /\ tickOp.ret = {23}
    /\ hw.log[1].addr = RVR

\* C12: on an Output pin, two calls of toggle() with no other call in
\* between leave the pin's output bit, and so the value of is_set_high(), as
\* it was before the first of them, whichever level that was.
C12_ToggleTwice ==
    [][(lastOp.op = "toggle" /\ toggle(lastOp.pin, PinModeOutput)) =>
            pin_is_set_high(hw', lastOp.pin) = LevelRead(lastOp.pin)]_vars

C12_Witness ==
    /\ lastOp.op = "toggle" /\ lastOp.pin = d13
    /\ ~LevelRead(d13) /\ pin_is_set_high(hw, d13)
    /\ 0 \in hw.reg[PCNTR1(PortOf(d13))]

\* C13: one toggle() negates the value is_set_high() returns; after
\* set_high() followed by one toggle() the output bit is clear, and
\* is_set_high() called after a toggle() from high returns false.
C13_ToggleNegates ==
    [][\A p \in Pins :
        /\ toggle(p, PinModeOutput) =>
            pin_is_set_high(hw', p) = ~pin_is_set_high(hw, p)
        /\ (lastOp.op = "set_high" /\ lastOp.pin = p
            /\ toggle(p, PinModeOutput)) => ~pin_is_set_high(hw', p)
        /\ (lastOp.op = "toggle" /\ lastOp.pin = p /\ LevelRead(p)
            /\ is_set_high(p, PinModeOutput)) => lastOp'.ret = "false"]_vars

C13_Witness ==
    /\ lastOp.op = "toggle" /\ lastOp.pin = d13
    /\ LevelRead(d13) /\ ~pin_is_set_high(hw, d13)
    /\ live[d13][PinModeOutput] = 1

\* C14: on a pin in state PinModeInputPullup, is_input_pullup() returns
\* true, is_high() returns the level the hardware read gives and is_low()
\* its negation, for a read of high and for a read of low.
C14_PullupQueries ==
    lastOp.from = PinModeInputPullup =>
        /\ lastOp.op = "is_input_pullup" => lastOp.ret = "true"
        /\ lastOp.op = "is_high" =>
            lastOp.ret = BoolStr(PinNo(lastOp.pin) \in hw.log[1].val)
        /\ lastOp.op = "is_low" =>
            lastOp.ret = BoolStr(~(PinNo(lastOp.pin) \in hw.log[1].val))

C14_Witness ==
    /\ lastOp = Op("is_low", d10, PinModeInputPullup, "true")
    /\ hw.log[1].addr = PCNTR2(PortOf(d10)) /\ hw.log[1].val = {}
    /\ hw.reg[PFSR(d10)] = Bit(4)

\* C15: timer_wrapped() returns true exactly when the timer has reached 0 at
\* least once since CSR was last read (once or several times), and it
\* clears the flag, so that a second call with no wrap in between returns
\* false.
C15_WrappedSinceLastRead ==
    [][(\E i \in DOMAIN systicks : timer_wrapped(i)) =>
            /\ tickOp'.ret = BoolStr(wraps > 0)
            /\ 16 \notin hw'.reg[CSR]
            /\ (tickOp.op = "timer_wrapped" /\ wraps = 0) =>
                    tickOp'.ret = "false"]_vars

C15_Witness ==
    /\ tickOp.op = "timer_wrapped" /\ tickOp.ret = "true"
    /\ 16 \in hw.log[1].val /\ 16 \notin hw.reg[CSR]
    /\ edges = 0

\* C16 (as claimed; the code violates it): when a primitive has returned,
\* every bit of the register that the hardware changed while the primitive
\* ran, and that the primitive is not meant to change, has the level the
\* hardware gave it.
C16_NoLostUpdate ==
    rmw.at = "returned" =>
        \A b \in rmw.changed : (b \in hw.reg[rmw.addr]) <=> (b \in rmw.level)

\* C17: over any prior content of the port's control register, after
\* set_high() or set(High) bit p+16 is set, after set_low() or set(Low) it
\* is clear, and is_set_high() called next returns true, respectively false.
C17_DriveLevel ==
    [][/\ lastOp'.op \in DriveOps =>
            pin_is_set_high(hw', lastOp'.pin) = DrivesHigh(lastOp')
       /\ (lastOp.op \in DriveOps /\ lastOp'.op = "is_set_high"
           /\ lastOp'.pin = lastOp.pin) =>
            lastOp'.ret = BoolStr(DrivesHigh(lastOp))]_vars

C17_Witness ==
    /\ lastOp.op = "set" /\ lastOp.status = "Low" /\ lastOp.pin = d13
    /\ hw.log[1].val = {0, PinNo(d13) + 16, PinNo(d10) + 16}
    /\ hw.reg[PCNTR1(PortOf(d13))] = {0, PinNo(d10) + 16}

C19_ResetReloads ==
    [][/\ (\E i \in DOMAIN systicks : reset(i)) => hw'.reg[CVR] = {}
       /\ hw'.reg[CVR] # hw.reg[CVR] =>
            (Clock \/ \E i \in DOMAIN systicks : reset(i))
       /\ (tickOp.op = "reset" /\ edges = 0
           /\ \E i \in DOMAIN systicks : get_current_value(i)) =>
            tickOp'.ret = {}
       /\ (tickOp.op = "reset" /\ edges = 0 /\ Clock) =>
            hw'.reg[CVR] = BitAnd(hw.reg[RVR], Low24)]_vars

C19_Witness ==
    /\ tickOp.op = "reset" /\ edges = 1
    /\ 0 \in hw.reg[CSR]
    /\ hw.reg[RVR] = {0, 1} /\ hw.reg[CVR] = {0, 1}

\* C20 (as claimed; the code violates it): every register access a driver
\* operation makes is a volatile access.
C20_AllVolatile == \A k \in DOMAIN hw.log : hw.log[k].volatile

\* C21: once a pin transition that writes a function-select register has
\* completed, PWPR holds the lock pattern, bit 7 set and bit 6 clear, after
\* every later call as well.
C21_LockedBetweenOperations ==
    Configured => hw.reg[PWPR] = Bit(7)

C21_Witness ==
    /\ lastOp.op = "into_input" /\ lastOp.from = PinModeOutput
    /\ hw.reg[PWPR] = Bit(7)
    /\ \E p \in Pins : p # lastOp.pin /\ live[p][PinModeInputPullup] = 1

\* C22 (as claimed; the code violates it): is_enabled() of every SysTick
\* value handed out by instance() equals the hardware run bit, bit 0 of
\* CSR.
C22_EnabledIsRunBit ==
    \A i \in DOMAIN systicks : systicks[i].enabled <=> 0 \in hw.reg[CSR]

\* C23: the state of every live pin value agrees with the pin's
\* function-select register: 1 << 2 for Output, 0 for Input, 1 << 4 for
\* InputWithPullup.
C23_TypeStateIsHardware ==
    \A p \in Pins :
        /\ live[p][PinModeOutput] > 0 => hw.reg[PFSR(p)] = Bit(2)
        /\ live[p][PinModeInput] > 0 => hw.reg[PFSR(p)] = {}
        /\ live[p][PinModeInputPullup] > 0 => hw.reg[PFSR(p)] = Bit(4)

C23_Witness ==
    /\ live[d13][PinModeOutput] = 1 /\ hw.reg[PFSR(d13)] = Bit(2)
    /\ live[d10][PinModeInput] = 1 /\ hw.reg[PFSR(d10)] = {}
    /\ lastOp.op = "into_input" /\ lastOp.from = PinModeInputPullup

\* C24: set_high(), set_low(), set() and toggle() on pin p change at most
\* bit p+16 of PCNTR1 of p's port: every other bit of that register and
\* every other register keeps its value.
C24_DriveFrame ==
    [][\A p \in Pins :
        (\/ set_high(p, PinModeOutput)
         \/ set_low(p, PinModeOutput)
         \/ toggle(p, PinModeOutput)
         \/ \E status \in {"Low", "High"} : set(p, PinModeOutput, status)) =>
            \A a \in Registers :
                IF a = PCNTR1(PortOf(p))
                THEN hw'.reg[a] \ Bit(PinNo(p) + 16)
                     = hw.reg[a] \ Bit(PinNo(p) + 16)
                ELSE hw'.reg[a] = hw.reg[a]]_vars

C24_Witness ==
    /\ lastOp.op = "set_low" /\ lastOp.pin = d13
    /\ hw.log[1].val = {0, PinNo(d13) + 16, PinNo(d10) + 16}
    /\ hw.reg[PCNTR1(PortOf(d13))] = {0, PinNo(d10) + 16}
    /\ \E q \in Ports : q # PortOf(d13) /\ hw.reg[PCNTR1(q)] = {0}

====
